---- MODULE Spec2Model ----
(***************************************************************************)
(* Model of the implicit-token alignment pipeline:                         *)
(*   - ImplicitTokensAligner.forward (src/src/implicit_tokens/aligner.py)  *)
(*   - preprocess_example / data_collator (same file)                      *)
(*   - the generation loop of align_data_prepare.main                      *)
(* Positions are 0-based as in the Python source; sequences are TLA+       *)
(* sequences, so position p of a tensor s is s[p + 1].                     *)
(***************************************************************************)
EXTENDS Integers, Sequences, FiniteSets, TLC

VARIABLES
    \* ---- ImplicitTokensAligner.forward ----
    k,                        \* self.k, the number of implicit tokens
    batch_size, seq_len,      \* embeddings.shape[0], embeddings.shape[1]
    i,                        \* number of loop iterations started so far
    ids, mask,                \* the loop's current row: input_ids[i], attention_mask[i]
    loc,                      \* what the span location of the current row produced
    attn_calls,               \* rows on which self.cross_attention was invoked
    new_embeddings_list, new_attention_mask_list,
    new_embeddings, new_attention_mask,   \* the returned tensors
    lm_call,                  \* the arguments ImplicitTokensAlignment.forward gave self.model
    pc,
    \* ---- data_collator ----
    pad_token_id,             \* tokenizer.pad_token_id
    n_examples,               \* len(batch)
    batch,                    \* the preprocessed examples read so far
    input_ids, labels,        \* the collator's two lists
    batch_inputs, batch_labels, attention_mask,   \* the returned tensors
    cpc,
    \* ---- align_data_prepare.main ----
    g_k, max_retries,         \* args.k, args.max_retries
    split_start_idx, split_end_idx,   \* args.split_start_idx, args.split_end_idx
    dataset,                  \* the dataset, each item named by its index in the loaded split
    visited,                  \* the items "for item in dataset" has taken so far
    item,                     \* number of dataset items finished
    batch_outputs, retries,
    pending,                  \* outputs of the current llm.generate call not yet read
    gen_calls,                \* llm.generate calls made for the current item
    processed_data,
    output_dataset,           \* what save_to_disk wrote
    ppc,
    \* ---- tools/dataset_merge.py ----
    disk1, disk2,             \* the datasets stored at data/s1 and data/s2
    dataset1, dataset2,
    merged_dataset,
    saved_merged,             \* what is stored at data/merged
    mpc,
    \* ---- align_data_prepare: one generated output through lines 95-113 ----
    out_text,                 \* generated_text
    out_valid,                \* what validate_output returned
    out_record,               \* what extract_logic_and_answer returned
    vpc

alignerVars == <<k, batch_size, seq_len, i, ids, mask, loc, attn_calls,
                 new_embeddings_list, new_attention_mask_list,
                 new_embeddings, new_attention_mask, lm_call, pc>>

collatorVars == <<pad_token_id, n_examples, batch, input_ids, labels,
                  batch_inputs, batch_labels, attention_mask, cpc>>

prepareVars == <<g_k, max_retries, split_start_idx, split_end_idx, dataset, visited, item, batch_outputs, retries, pending,
                 gen_calls, processed_data, output_dataset, ppc>>

mergeVars == <<disk1, disk2, dataset1, dataset2, merged_dataset, saved_merged, mpc>>

validateVars == <<out_text, out_valid, out_record, vpc>>

vars == <<alignerVars, collatorVars, prepareVars, mergeVars, validateVars>>

(***************************************************************************)
(* Bounds                                                                  *)
(***************************************************************************)
\* the largest number k of implicit tokens
MaxK == 2
\* the largest batch_size
MaxBatch == 2
\* the largest seq_len of a batch of several rows
MaxBatchLen == 5
\* the largest seq_len of a batch of one row
MaxLen == 7
\* the largest number of symbols in problem, logic_trajectory and answer together
MaxText == 1
\* the largest number of examples handed to data_collator
MaxExamples == 2
\* the largest args.k of align_data_prepare
MaxSamples == 2
\* the largest args.max_retries
MaxRetries == 2
\* the largest number of selected dataset items
MaxItems == 2
\* the largest number of column names the two datasets of dataset_merge draw from
MaxColumns == 2
\* the largest number of rows of one dataset of dataset_merge
MaxRows == 2
\* the largest number of symbols of one generated output
MaxOutputLen == 4

(***************************************************************************)
(* Token ids                                                               *)
(***************************************************************************)
\* The tokenizer's vocabulary; a token's id is its place in it. A text is a
\* sequence of symbols: the special tokens are one symbol each, "<", "</",
\* "w" (the word answer) and ">" spell the answer tags, which are ordinary
\* text, and "x" and "$" are a letter and a punctuation sign. Two entries
\* are merges of ">" with the punctuation that follows it.
Vocab ==
    << <<"PAD">>, <<"THINK">>, <<"ENDTHINK">>, <<"x">>, <<"EOS">>, <<"BOS">>,
       <<"USER">>, <<"ASSISTANT">>, <<"<">>, <<"</">>, <<"w">>, <<">">>, <<"$">>,
       <<">", "$">>, <<">", "</">> >>

\* tokenizer.convert_tokens_to_ids
convert_tokens_to_ids(piece) == (CHOOSE n \in 1..Len(Vocab) : Vocab[n] = piece) - 1

PadId == convert_tokens_to_ids(<<"PAD">>)
ThinkId == convert_tokens_to_ids(<<"THINK">>)
EndThinkId == convert_tokens_to_ids(<<"ENDTHINK">>)
OtherId == convert_tokens_to_ids(<<"x">>)
EosId == convert_tokens_to_ids(<<"EOS">>)

RealIds == {ThinkId, EndThinkId, OtherId}

(***************************************************************************)
(* Python helpers                                                          *)
(***************************************************************************)
Min(a, b) == IF a <= b THEN a ELSE b

\* s[a:b] for a, b >= 0: both ends are clamped to len(s)
Slice(s, a, b) ==
    IF Min(a, Len(s)) >= Min(b, Len(s)) THEN <<>> ELSE SubSeq(s, a + 1, Min(b, Len(s)))

\* s[a:] for a >= 0
SliceFrom(s, a) == IF a >= Len(s) THEN <<>> ELSE SubSeq(s, a + 1, Len(s))

\* (ids == tok).nonzero(as_tuple=True)[0]: the positions holding tok, ascending
NonZero(row, tok) ==
    SelectSeq([j \in 1..Len(row) |-> j - 1], LAMBDA p : row[p + 1] = tok)

\* [x] * n
Repeat(x, n) == [j \in 1..n |-> x]

Max(a, b) == IF a >= b THEN a ELSE b

RECURSIVE MaxOf(_)
\* max(list) of a non-empty list of naturals
MaxOf(s) == IF Len(s) = 1 THEN s[1] ELSE Max(s[1], MaxOf(Tail(s)))

(***************************************************************************)
(* Datasets of tools/dataset_merge.py                                      *)
(* A dataset is its features (column name -> dtype) and its number of rows. *)
(***************************************************************************)
\* the columns align_data_prepare writes
Columns == <<"problem", "solution", "logic_trajectory", "answer">>

ColumnNames == {Columns[j] : j \in 1..Min(MaxColumns, Len(Columns))}

Dtypes == {"string", "int64"}

\* every Features value over the column names
FeatureSets == UNION {[names -> Dtypes] : names \in SUBSET ColumnNames}

Dataset(features, num_rows) == [kind |-> "Dataset", features |-> features, num_rows |-> num_rows]

DatasetDict(train, test) == [kind |-> "DatasetDict", train |-> train, test |-> test]

\* a name not bound yet, a path nothing was written to
NotLoaded == [kind |-> "none"]

(***************************************************************************)
(* Inputs of forward                                                       *)
(***************************************************************************)
\* embeddings[r]: one opaque vector per position of row r
Embedding(r, L) == [j \in 1..L |-> [src |-> "in", row |-> r, pos |-> j - 1]]

\* attention_mask as the collator derives it from the padded ids
AttentionMaskOf(row, pad) ==
    [j \in 1..Len(row) |-> IF row[j] # pad THEN 1 ELSE 0]

\* the right-padded rows of length L: n real tokens, then L - n pad tokens
RowsOfLen(L) ==
    UNION { { [j \in 1..L |-> IF j <= n THEN real[j] ELSE PadId] :
                real \in [1..n -> RealIds] } : n \in 1..L }

pad_token_emb == [src |-> "pad"]

\* self.model has not been called
NotCalled == [kind |-> "none"]

\* extract_logic_and_answer has not been called on the output
NoRecord == [kind |-> "none"]

\* self.implicit_tokens: kk learned query vectors
implicit_tokens(kk) == [n \in 1..kk |-> [src |-> "implicit", n |-> n]]

\* self.cross_attention(query, key, value): one output vector per query,
\* a function of that query and of the whole key/value region
cross_attention(queries, region_emb) ==
    [n \in 1..Len(queries) |-> [src |-> "agg", q |-> queries[n], keys |-> region_emb]]

(***************************************************************************)
(* Span location (aligner.py lines 44-62)                                  *)
(***************************************************************************)
NoRegion == [kind |-> "none", start |-> -1, end |-> -1]
IndexFault == [kind |-> "fault", start |-> -1, end |-> -1]
Region(s, e) == [kind |-> "region", start |-> s, end |-> e]

think_positions(row) == NonZero(row, ThinkId)
end_think_positions(row) == NonZero(row, EndThinkId)

end_idx_candidates(row, start_idx) ==
    SelectSeq(end_think_positions(row), LAMBDA p : p > start_idx)

\* mutant: takes the first close tag after the start instead of the last
SpanLocate_FirstCandidate(row) ==
    IF Len(think_positions(row)) = 0 \/ Len(end_think_positions(row)) = 0
    THEN NoRegion
    ELSE IF Len(think_positions(row)) < 3
    THEN IndexFault
    ELSE LET start_idx == think_positions(row)[3]
             cands == end_idx_candidates(row, start_idx)
         IN IF Len(cands) = 0 THEN NoRegion
            ELSE Region(start_idx, cands[1])

\* mutant: the early return tests the open tags only
SpanLocate_OnlyOpenChecked(row) ==
    IF Len(think_positions(row)) = 0
    THEN NoRegion
    ELSE IF Len(think_positions(row)) < 3
    THEN IndexFault
    ELSE LET start_idx == think_positions(row)[3]
             cands == end_idx_candidates(row, start_idx)
         IN IF Len(cands) = 0 THEN NoRegion
            ELSE Region(start_idx, cands[Len(cands)])

SpanLocate(row) ==
    IF Len(think_positions(row)) = 0 \/ Len(end_think_positions(row)) = 0
    THEN NoRegion
    ELSE IF Len(think_positions(row)) < 3
    THEN IndexFault     \* think_positions[2] raises IndexError
    ELSE LET start_idx == think_positions(row)[3]
             cands == end_idx_candidates(row, start_idx)
         IN IF Len(cands) = 0 THEN NoRegion
            ELSE Region(start_idx, cands[Len(cands)])

(***************************************************************************)
(* Reassembly (aligner.py lines 64-90)                                     *)
(***************************************************************************)
region_emb(emb, l) == Slice(emb, l.start + 1, l.end)

aligned_region(emb, l, kk) == cross_attention(implicit_tokens(kk), region_emb(emb, l))

\* mutant: the tail starts at the close tag, emb[end_idx:]
NewEmb_KeepsCloseTag(emb, l, kk) ==
    IF l.kind = "none" THEN emb
    ELSE IF Len(region_emb(emb, l)) = 0
    THEN Slice(emb, 0, l.start) \o SliceFrom(emb, l.end + 1)
    ELSE Slice(emb, 0, l.start) \o aligned_region(emb, l, kk) \o SliceFrom(emb, l.end)

\* mutant: no branch for the empty region
NewEmb_NoEmptyBranch(emb, l, kk) ==
    IF l.kind = "none" THEN emb
    ELSE Slice(emb, 0, l.start) \o aligned_region(emb, l, kk) \o SliceFrom(emb, l.end + 1)

NewEmb(emb, l, kk) ==
    IF l.kind = "none" THEN emb
    ELSE IF Len(region_emb(emb, l)) = 0
    THEN Slice(emb, 0, l.start) \o SliceFrom(emb, l.end + 1)
    ELSE Slice(emb, 0, l.start) \o aligned_region(emb, l, kk) \o SliceFrom(emb, l.end + 1)

\* mutant: one mask entry per region token instead of one per implicit token
NewMask_OnesPerRegionToken(emb, m, l, kk) ==
    IF l.kind = "none" THEN m
    ELSE IF Len(region_emb(emb, l)) = 0
    THEN Slice(m, 0, l.start) \o SliceFrom(m, l.end + 1)
    ELSE Slice(m, 0, l.start) \o Repeat(1, Len(region_emb(emb, l))) \o SliceFrom(m, l.end + 1)

NewMask(emb, m, l, kk) ==
    IF l.kind = "none" THEN m
    ELSE IF Len(region_emb(emb, l)) = 0
    THEN Slice(m, 0, l.start) \o SliceFrom(m, l.end + 1)
    ELSE Slice(m, 0, l.start) \o Repeat(1, kk) \o SliceFrom(m, l.end + 1)

AttentionInvoked(emb, l) == l.kind = "region" /\ Len(region_emb(emb, l)) > 0

(***************************************************************************)
(* Batch padding (aligner.py lines 92-109)                                 *)
(***************************************************************************)
new_seq_lengths(embs) == [r \in 1..Len(embs) |-> Len(embs[r])]

max_len(embs) == MaxOf(new_seq_lengths(embs))

\* mutant: pads on the left
PadEmb_Left(emb, ml) ==
    IF ml - Len(emb) > 0 THEN Repeat(pad_token_emb, ml - Len(emb)) \o emb ELSE emb

PadEmb(emb, ml) ==
    IF ml - Len(emb) > 0 THEN emb \o Repeat(pad_token_emb, ml - Len(emb)) ELSE emb

PadMask(emb, m, ml) ==
    IF ml - Len(emb) > 0 THEN m \o Repeat(0, ml - Len(emb)) ELSE m

(***************************************************************************)
(* ImplicitTokensAligner.forward as a state machine                        *)
(***************************************************************************)
InitAligner ==
    /\ k \in 1..MaxK
    /\ batch_size \in 1..MaxBatch
    /\ seq_len \in 1..MaxLen
    /\ batch_size = 1 \/ seq_len <= MaxBatchLen
    /\ i = 0
    /\ ids = <<>>
    /\ mask = <<>>
    /\ loc = NoRegion
    /\ attn_calls = <<>>
    /\ new_embeddings_list = <<>>
    /\ new_attention_mask_list = <<>>
    /\ new_embeddings = <<>>
    /\ new_attention_mask = <<>>
    /\ lm_call = NotCalled
    /\ pc = "loop"
    \* data_collator is not running
    /\ pad_token_id = PadId
    /\ n_examples = 0
    /\ batch = <<>>
    /\ input_ids = <<>>
    /\ labels = <<>>
    /\ batch_inputs = <<>>
    /\ batch_labels = <<>>
    /\ attention_mask = <<>>
    /\ cpc = "idle"
    \* align_data_prepare is not running
    /\ g_k = 0
    /\ max_retries = 0
    /\ split_start_idx = 0
    /\ split_end_idx = 0
    /\ dataset = <<>>
    /\ visited = <<>>
    /\ item = 0
    /\ batch_outputs = <<>>
    /\ retries = 0
    /\ pending = 0
    /\ gen_calls = 0
    /\ processed_data = <<>>
    /\ output_dataset = <<>>
    /\ ppc = "idle"
    \* dataset_merge is not running
    /\ disk1 = NotLoaded
    /\ disk2 = NotLoaded
    /\ dataset1 = NotLoaded
    /\ dataset2 = NotLoaded
    /\ merged_dataset = NotLoaded
    /\ saved_merged = NotLoaded
    /\ mpc = "idle"
    \* no generated output is being validated
    /\ out_text = <<>>
    /\ out_valid = FALSE
    /\ out_record = NoRecord
    /\ vpc = "idle"

\* input_ids[i] and attention_mask[i]: a row of the batch data_collator returned
\* when forward is called on one, any row of seq_len tokens when it is called alone
InputRows == IF cpc = "idle" THEN RowsOfLen(seq_len) ELSE {batch_inputs[i + 1]}

InputMask(row) == IF cpc = "idle" THEN AttentionMaskOf(row, PadId) ELSE attention_mask[i + 1]

\* the body of "for i in range(batch_size)" on row number i
ProcessExample ==
    /\ pc = "loop"
    /\ ids = <<>>
    /\ i < batch_size
    /\ \E row \in InputRows :
         LET emb == Embedding(i, seq_len)
             m == InputMask(row)
             l == SpanLocate(row)
         IN /\ ids' = row
            /\ mask' = m
            /\ loc' = l
            /\ IF l.kind = "fault"
               THEN /\ pc' = "fault"
                    /\ UNCHANGED <<attn_calls, new_embeddings_list, new_attention_mask_list>>
               ELSE /\ pc' = "loop"
                    /\ attn_calls' = IF AttentionInvoked(emb, l)
                                     THEN Append(attn_calls, i) ELSE attn_calls
                    /\ new_embeddings_list' = Append(new_embeddings_list, NewEmb(emb, l, k))
                    /\ new_attention_mask_list' =
                           Append(new_attention_mask_list, NewMask(emb, m, l, k))
    /\ UNCHANGED <<k, batch_size, seq_len, i, new_embeddings, new_attention_mask, lm_call>>
    /\ UNCHANGED <<collatorVars, prepareVars, mergeVars, validateVars>>

\* the for statement advances to the next row; ids, mask and the located
\* positions are rebound by the next body before anything reads them
NextExample ==
    /\ pc = "loop"
    /\ ids # <<>>
    /\ i' = i + 1
    /\ ids' = <<>>
    /\ mask' = <<>>
    /\ loc' = NoRegion
    /\ UNCHANGED <<k, batch_size, seq_len, attn_calls, new_embeddings_list,
                   new_attention_mask_list, new_embeddings, new_attention_mask, lm_call, pc>>
    /\ UNCHANGED <<collatorVars, prepareVars, mergeVars, validateVars>>

\* the padding loop and the two final torch.cat calls
PadBatch ==
    /\ pc = "loop"
    /\ ids = <<>>
    /\ i = batch_size
    /\ LET ml == max_len(new_embeddings_list)
       IN /\ new_embeddings' =
                [r \in 1..Len(new_embeddings_list) |-> PadEmb(new_embeddings_list[r], ml)]
          /\ new_attention_mask' =
                [r \in 1..Len(new_embeddings_list) |->
                    PadMask(new_embeddings_list[r], new_attention_mask_list[r], ml)]
    /\ pc' = "done"
    /\ UNCHANGED <<k, batch_size, seq_len, i, ids, mask, loc, attn_calls,
                   new_embeddings_list, new_attention_mask_list, lm_call>>
    /\ UNCHANGED <<collatorVars, prepareVars, mergeVars, validateVars>>


(***************************************************************************)
(* Tokenizer                                                               *)
(***************************************************************************)
eos_token == "EOS"

RECURSIVE Tokenize(_)
\* tokenizer(text, add_special_tokens=False)["input_ids"]: every symbol is a
\* token, except that a pair the vocabulary holds as a merge is one token
Tokenize(text) ==
    IF text = <<>> THEN <<>>
    ELSE IF Len(text) >= 2 /\ \E n \in 1..Len(Vocab) : Vocab[n] = <<text[1], text[2]>>
    THEN <<convert_tokens_to_ids(<<text[1], text[2]>>)>> \o Tokenize(SubSeq(text, 3, Len(text)))
    ELSE <<convert_tokens_to_ids(<<text[1]>>)>> \o Tokenize(Tail(text))

\* str.replace(sym, "")
RemoveAll(text, sym) == SelectSeq(text, LAMBDA c : c # sym)

\* x in list
Contains(s, x) == \E j \in 1..Len(s) : s[j] = x

\* list.remove(x): drops the first occurrence of x, which the caller knows is there
RemoveFirst(s, x) ==
    LET first == CHOOSE j \in 1..Len(s) : s[j] = x /\ \A h \in 1..(j - 1) : s[h] # x
    IN SubSeq(s, 1, first - 1) \o SubSeq(s, first + 1, Len(s))

\* tokenizer.pad({"input_ids": rows}): right-pads every row to the longest
TokenizerPad(rows, pad) ==
    [r \in 1..Len(rows) |->
        rows[r] \o Repeat(pad, MaxOf([q \in 1..Len(rows) |-> Len(rows[q])]) - Len(rows[r]))]

(***************************************************************************)
(* preprocess_example (aligner.py lines 209-235)                           *)
(***************************************************************************)
\* the tags of the training prompt: <think> </think> ... <think> ... </think>
system_prompt == <<"THINK", "ENDTHINK", "THINK", "x", "ENDTHINK">>

answer_open == <<"<", "w", ">">>
answer_close == <<"</", "w", ">">>

prompt_part(example) ==
    LET text == <<"BOS">> \o system_prompt \o <<"USER">> \o example.problem
                \o <<"ASSISTANT", "THINK">> \o example.logic_trajectory
                \o <<"ENDTHINK">> \o answer_open
    IN IF Contains(text, eos_token) THEN RemoveAll(text, eos_token) ELSE text

target_part(example) == example.answer \o answer_close

prompt_ids(example) ==
    LET tok == Tokenize(prompt_part(example))
    IN IF Contains(tok, EosId) THEN RemoveFirst(tok, EosId) ELSE tok

preprocess_example(example) ==
    [full_text |-> prompt_part(example) \o target_part(example),
     prompt_length |-> Len(prompt_ids(example))]

\* the dataset records: texts of at most MaxText symbols in all
TextsOver(alphabet, n) == UNION {[1..m -> alphabet] : m \in 0..n}

Examples ==
    {[problem |-> p, logic_trajectory |-> l, answer |-> a] :
        p \in TextsOver({"x", "EOS"}, MaxText),
        l \in TextsOver({"x"}, MaxText),
        a \in TextsOver({"x", "$", "EOS"}, MaxText)}

BoundedExamples ==
    {e \in Examples : Len(e.problem) + Len(e.logic_trajectory) + Len(e.answer) <= MaxText}

(***************************************************************************)
(* data_collator (aligner.py lines 237-256)                                *)
(***************************************************************************)
IgnoreLabel == -100

\* mutant: the prompt's ids are not cut off
example_labels_Unsliced(tok, p_len) == Repeat(IgnoreLabel, p_len) \o tok

example_labels(tok, p_len) == Repeat(IgnoreLabel, p_len) \o SliceFrom(tok, p_len)

\* a tokenizer without a pad token uses the end-of-sequence token as pad
InitCollator ==
    \* forward is not running
    /\ k = 0
    /\ batch_size = 0
    /\ seq_len = 0
    /\ i = 0
    /\ ids = <<>>
    /\ mask = <<>>
    /\ loc = NoRegion
    /\ attn_calls = <<>>
    /\ new_embeddings_list = <<>>
    /\ new_attention_mask_list = <<>>
    /\ new_embeddings = <<>>
    /\ new_attention_mask = <<>>
    /\ lm_call = NotCalled
    /\ pc = "idle"
    /\ pad_token_id \in {PadId, EosId}
    /\ n_examples \in 1..MaxExamples
    /\ batch = <<>>
    /\ input_ids = <<>>
    /\ labels = <<>>
    /\ batch_inputs = <<>>
    /\ batch_labels = <<>>
    /\ attention_mask = <<>>
    /\ cpc = "loop"
    \* align_data_prepare is not running
    /\ g_k = 0
    /\ max_retries = 0
    /\ split_start_idx = 0
    /\ split_end_idx = 0
    /\ dataset = <<>>
    /\ visited = <<>>
    /\ item = 0
    /\ batch_outputs = <<>>
    /\ retries = 0
    /\ pending = 0
    /\ gen_calls = 0
    /\ processed_data = <<>>
    /\ output_dataset = <<>>
    /\ ppc = "idle"
    \* dataset_merge is not running
    /\ disk1 = NotLoaded
    /\ disk2 = NotLoaded
    /\ dataset1 = NotLoaded
    /\ dataset2 = NotLoaded
    /\ merged_dataset = NotLoaded
    /\ saved_merged = NotLoaded
    /\ mpc = "idle"
    \* no generated output is being validated
    /\ out_text = <<>>
    /\ out_valid = FALSE
    /\ out_record = NoRecord
    /\ vpc = "idle"

\* one iteration of "for example in batch"; the example is what
\* preprocess_example made of some dataset record
CollateExample ==
    /\ cpc = "loop"
    /\ Len(batch) < n_examples
    /\ \E record \in BoundedExamples :
         LET example == preprocess_example(record)
             tok == Tokenize(example.full_text)
         IN /\ batch' = Append(batch, example)
            /\ input_ids' = Append(input_ids, tok)
            /\ labels' = Append(labels, example_labels(tok, example.prompt_length))
    /\ UNCHANGED <<pad_token_id, n_examples, batch_inputs, batch_labels, attention_mask, cpc>>
    /\ UNCHANGED <<alignerVars, prepareVars, mergeVars, validateVars>>

\* the two tokenizer.pad calls and the attention mask
CollatePad ==
    /\ cpc = "loop"
    /\ Len(batch) = n_examples
    /\ batch_inputs' = TokenizerPad(input_ids, pad_token_id)
    /\ batch_labels' = TokenizerPad(labels, pad_token_id)
    /\ attention_mask' =
          [r \in 1..Len(input_ids) |->
              AttentionMaskOf(TokenizerPad(input_ids, pad_token_id)[r], pad_token_id)]
    /\ cpc' = "done"
    /\ UNCHANGED <<pad_token_id, n_examples, batch, input_ids, labels>>
    /\ UNCHANGED <<alignerVars, prepareVars, mergeVars, validateVars>>

(***************************************************************************)
(* ImplicitTokensAlignment.forward on a batch of data_collator             *)
(* (aligner.py lines 176-203; the Trainer of lines 329-336 hands each      *)
(* collated batch to the wrapper's forward)                                *)
(***************************************************************************)
InitTrain ==
    \* the wrapper is constructed with its aligner, forward has not run
    /\ k \in 1..MaxK
    /\ batch_size = 0
    /\ seq_len = 0
    /\ i = 0
    /\ ids = <<>>
    /\ mask = <<>>
    /\ loc = NoRegion
    /\ attn_calls = <<>>
    /\ new_embeddings_list = <<>>
    /\ new_attention_mask_list = <<>>
    /\ new_embeddings = <<>>
    /\ new_attention_mask = <<>>
    /\ lm_call = NotCalled
    /\ pc = "idle"
    /\ pad_token_id \in {PadId, EosId}
    /\ n_examples \in 1..MaxExamples
    /\ batch = <<>>
    /\ input_ids = <<>>
    /\ labels = <<>>
    /\ batch_inputs = <<>>
    /\ batch_labels = <<>>
    /\ attention_mask = <<>>
    /\ cpc = "loop"
    \* align_data_prepare is not running
    /\ g_k = 0
    /\ max_retries = 0
    /\ split_start_idx = 0
    /\ split_end_idx = 0
    /\ dataset = <<>>
    /\ visited = <<>>
    /\ item = 0
    /\ batch_outputs = <<>>
    /\ retries = 0
    /\ pending = 0
    /\ gen_calls = 0
    /\ processed_data = <<>>
    /\ output_dataset = <<>>
    /\ ppc = "idle"
    \* dataset_merge is not running
    /\ disk1 = NotLoaded
    /\ disk2 = NotLoaded
    /\ dataset1 = NotLoaded
    /\ dataset2 = NotLoaded
    /\ merged_dataset = NotLoaded
    /\ saved_merged = NotLoaded
    /\ mpc = "idle"
    \* no generated output is being validated
    /\ out_text = <<>>
    /\ out_valid = FALSE
    /\ out_record = NoRecord
    /\ vpc = "idle"

\* lines 192-200: the wrapper embeds input_ids and calls self.aligner
WrapperForward ==
    /\ cpc = "done"
    /\ pc = "idle"
    /\ batch_size' = Len(batch_inputs)
    /\ seq_len' = Len(batch_inputs[1])
    /\ pc' = "loop"
    /\ UNCHANGED <<k, i, ids, mask, loc, attn_calls, new_embeddings_list,
                   new_attention_mask_list, new_embeddings, new_attention_mask, lm_call>>
    /\ UNCHANGED <<collatorVars, prepareVars, mergeVars, validateVars>>

\* line 202: the aligner has returned, self.model is called with the labels
\* forward was given
CallBaseModel ==
    /\ cpc = "done"
    /\ pc = "done"
    /\ lm_call' = [kind |-> "call", inputs_embeds |-> new_embeddings,
                   attention_mask |-> new_attention_mask, labels |-> batch_labels]
    /\ pc' = "called"
    /\ UNCHANGED <<k, batch_size, seq_len, i, ids, mask, loc, attn_calls,
                   new_embeddings_list, new_attention_mask_list, new_embeddings,
                   new_attention_mask>>
    /\ UNCHANGED <<collatorVars, prepareVars, mergeVars, validateVars>>

(***************************************************************************)
(* align_data_prepare: validate_output and extract_logic_and_answer        *)
(* A generated output is a sequence of symbols: the four tags, "x" for a    *)
(* visible character and " " for white space.                               *)
(***************************************************************************)
RECURSIVE Split(_, _)
\* str.split(sep): the pieces of text between the occurrences of sep
Split(text, sep) ==
    IF ~Contains(text, sep) THEN <<text>>
    ELSE LET first == CHOOSE j \in 1..Len(text) :
                          text[j] = sep /\ \A h \in 1..(j - 1) : text[h] # sep
         IN <<SubSeq(text, 1, first - 1)>> \o Split(SubSeq(text, first + 1, Len(text)), sep)

RECURSIVE Strip(_)
\* str.strip()
Strip(text) ==
    IF text = <<>> THEN text
    ELSE IF Head(text) = " " THEN Strip(Tail(text))
    ELSE IF text[Len(text)] = " " THEN Strip(SubSeq(text, 1, Len(text) - 1))
    ELSE text

validate_output(output) == Contains(output, "THINK") /\ Contains(output, "ENDTHINK")

None == [ok |-> FALSE, think_content |-> <<>>, answer_content |-> <<>>]

\* the except IndexError branch is the Len(...) < 2 tests
extract_logic_and_answer(output) ==
    IF Len(Split(output, "THINK")) < 2 THEN None
    ELSE LET think_content == Strip(Split(Split(output, "THINK")[2], "ENDTHINK")[1])
             tagged == Contains(output, "ANSWER") /\ Contains(output, "ENDANSWER")
         IN IF ~tagged /\ Len(Split(output, "ENDTHINK")) < 2 THEN None
            ELSE LET answer_content ==
                         IF tagged
                         THEN Strip(Split(Split(output, "ANSWER")[2], "ENDANSWER")[1])
                         ELSE Strip(Split(output, "ENDTHINK")[2])
                 IN IF Len(think_content) = 0 \/ Len(answer_content) = 0 THEN None
                    ELSE [ok |-> TRUE, think_content |-> think_content,
                          answer_content |-> answer_content]

\* the sample main accepts: validate_output, then both contents non-empty
Accepted(generated_text) ==
    validate_output(generated_text) /\ extract_logic_and_answer(generated_text).ok

\* texts the generation engine may return
SampleTexts ==
    { <<"THINK", "x", "ENDTHINK", "ANSWER", "x", "ENDANSWER">>,
      <<" ", "THINK", "x", "ENDTHINK", "ANSWER", "x", "ENDANSWER", " ">>,
      <<"THINK", "x", "ENDTHINK", "x", "x">>,
      <<"x">>,
      <<"THINK", "x">>,
      <<"THINK", " ", "ENDTHINK", "x">>,
      <<"THINK", "x", "ENDTHINK", " ">> }

(***************************************************************************)
(* align_data_prepare.main (lines 63-119)                                  *)
(***************************************************************************)
\* mutant: the end index is included
range_Inclusive(a, b) == [j \in 1..Max(0, b - a + 1) |-> a + j - 1]

\* list(range(a, b))
range(a, b) == [j \in 1..Max(0, b - a) |-> a + j - 1]

\* mutant: one retry too many
LoopContinues_OffByOne(have, kk, r, mr) == have < kk /\ r <= mr

\* the while condition of line 85
LoopContinues(have, kk, r, mr) == have < kk /\ r < mr

\* n of SamplingParams, line 90
SamplesRequested(kk, have) == kk - have

InitPrepare ==
    /\ g_k \in 1..MaxSamples
    /\ max_retries \in 0..MaxRetries
    /\ \E dataset_len \in 1..MaxItems :
          /\ dataset = range(0, dataset_len)
          /\ split_start_idx \in 0..(dataset_len - 1)
          /\ split_end_idx \in -1..(dataset_len + 1)
    /\ visited = <<>>
    /\ item = 0
    /\ batch_outputs = <<>>
    /\ retries = 0
    /\ pending = 0
    /\ gen_calls = 0
    /\ processed_data = <<>>
    /\ output_dataset = <<>>
    /\ ppc = "select"
    \* forward is not running
    /\ k = 0
    /\ batch_size = 0
    /\ seq_len = 0
    /\ i = 0
    /\ ids = <<>>
    /\ mask = <<>>
    /\ loc = NoRegion
    /\ attn_calls = <<>>
    /\ new_embeddings_list = <<>>
    /\ new_attention_mask_list = <<>>
    /\ new_embeddings = <<>>
    /\ new_attention_mask = <<>>
    /\ lm_call = NotCalled
    /\ pc = "idle"
    \* data_collator is not running
    /\ pad_token_id = PadId
    /\ n_examples = 0
    /\ batch = <<>>
    /\ input_ids = <<>>
    /\ labels = <<>>
    /\ batch_inputs = <<>>
    /\ batch_labels = <<>>
    /\ attention_mask = <<>>
    /\ cpc = "idle"
    \* dataset_merge is not running
    /\ disk1 = NotLoaded
    /\ disk2 = NotLoaded
    /\ dataset1 = NotLoaded
    /\ dataset2 = NotLoaded
    /\ merged_dataset = NotLoaded
    /\ saved_merged = NotLoaded
    /\ mpc = "idle"
    \* no generated output is being validated
    /\ out_text = <<>>
    /\ out_valid = FALSE
    /\ out_record = NoRecord
    /\ vpc = "idle"

\* line 61: dataset.select(range(...)) keeps the items at the indices of the
\* range, in the order of the range, and raises IndexError on an index that is
\* not smaller than len(dataset)
SelectRange ==
    /\ ppc = "select"
    /\ LET indices == range(split_start_idx, split_end_idx)
       IN IF \E j \in 1..Len(indices) : indices[j] >= Len(dataset)
          THEN /\ ppc' = "fault"
               /\ UNCHANGED dataset
          ELSE /\ dataset' = [j \in 1..Len(indices) |-> dataset[indices[j] + 1]]
               /\ ppc' = "items"
    /\ UNCHANGED <<g_k, max_retries, split_start_idx, split_end_idx, visited, item,
                   batch_outputs, retries, pending, gen_calls, processed_data,
                   output_dataset>>
    /\ UNCHANGED <<alignerVars, collatorVars, mergeVars, validateVars>>

\* "for item in dataset" takes the next item: lines 65-83
StartItem ==
    /\ ppc = "items"
    /\ item < Len(dataset)
    /\ visited' = Append(visited, dataset[item + 1])
    /\ batch_outputs' = <<>>
    /\ retries' = 0
    /\ gen_calls' = 0
    /\ pending' = 0
    /\ ppc' = "while"
    /\ UNCHANGED <<g_k, max_retries, split_start_idx, split_end_idx, dataset, item,
                   processed_data, output_dataset>>
    /\ UNCHANGED <<alignerVars, collatorVars, mergeVars, validateVars>>

\* the while test holds: one llm.generate call, lines 85-92
Generate ==
    /\ ppc = "while"
    /\ LoopContinues(Len(batch_outputs), g_k, retries, max_retries)
    /\ retries' = retries + 1
    /\ gen_calls' = gen_calls + 1
    /\ pending' = SamplesRequested(g_k, Len(batch_outputs))
    /\ ppc' = "outputs"
    /\ UNCHANGED <<g_k, max_retries, split_start_idx, split_end_idx, dataset, visited, item, batch_outputs, processed_data,
                   output_dataset>>
    /\ UNCHANGED <<alignerVars, collatorVars, mergeVars, validateVars>>

\* one iteration of "for output in outputs[0].outputs", lines 94-113
ConsumeOutput ==
    /\ ppc = "outputs"
    /\ pending > 0
    /\ \E text \in SampleTexts :
         LET generated_text == Strip(text)
             got == extract_logic_and_answer(generated_text)
             record == [problem |-> dataset[item + 1], logic_trajectory |-> got.think_content,
                        answer |-> got.answer_content]
         IN IF Accepted(generated_text)
            THEN /\ batch_outputs' = Append(batch_outputs, record)
                 /\ IF Len(batch_outputs) + 1 >= g_k
                    THEN pending' = 0          \* break
                    ELSE pending' = pending - 1
            ELSE /\ batch_outputs' = batch_outputs
                 /\ pending' = pending - 1
    /\ ppc' = IF pending' = 0 THEN "while" ELSE "outputs"
    /\ UNCHANGED <<g_k, max_retries, split_start_idx, split_end_idx, dataset, visited, item, retries, gen_calls, processed_data,
                   output_dataset>>
    /\ UNCHANGED <<alignerVars, collatorVars, mergeVars, validateVars>>

\* the while test fails: line 115
FinishItem ==
    /\ ppc = "while"
    /\ ~LoopContinues(Len(batch_outputs), g_k, retries, max_retries)
    /\ processed_data' = processed_data \o Slice(batch_outputs, 0, g_k)
    /\ item' = item + 1
    /\ ppc' = "items"
    /\ UNCHANGED <<g_k, max_retries, split_start_idx, split_end_idx, dataset, visited, batch_outputs, retries, pending, gen_calls,
                   output_dataset>>
    /\ UNCHANGED <<alignerVars, collatorVars, mergeVars, validateVars>>

\* lines 117-119
SaveDataset ==
    /\ ppc = "items"
    /\ item = Len(dataset)
    /\ output_dataset' = processed_data
    /\ ppc' = "done"
    /\ UNCHANGED <<g_k, max_retries, split_start_idx, split_end_idx, dataset, visited, item, batch_outputs, retries, pending,
                   gen_calls, processed_data>>
    /\ UNCHANGED <<alignerVars, collatorVars, mergeVars, validateVars>>

(***************************************************************************)
(* align_data_prepare.main, lines 95-113: what the body of                 *)
(* "for output in outputs[0].outputs" does with one generated output       *)
(***************************************************************************)
\* the symbols of a generated output
OutputSymbols == {"THINK", "ENDTHINK", "ANSWER", "ENDANSWER", "x", " "}

InitValidate ==
    \* line 95: generated_text = output.text.strip()
    /\ out_text \in {Strip(text) : text \in TextsOver(OutputSymbols, MaxOutputLen)}
    /\ out_valid = FALSE
    /\ out_record = NoRecord
    /\ vpc = "validate"
    \* forward is not running
    /\ k = 0
    /\ batch_size = 0
    /\ seq_len = 0
    /\ i = 0
    /\ ids = <<>>
    /\ mask = <<>>
    /\ loc = NoRegion
    /\ attn_calls = <<>>
    /\ new_embeddings_list = <<>>
    /\ new_attention_mask_list = <<>>
    /\ new_embeddings = <<>>
    /\ new_attention_mask = <<>>
    /\ lm_call = NotCalled
    /\ pc = "idle"
    \* data_collator is not running
    /\ pad_token_id = PadId
    /\ n_examples = 0
    /\ batch = <<>>
    /\ input_ids = <<>>
    /\ labels = <<>>
    /\ batch_inputs = <<>>
    /\ batch_labels = <<>>
    /\ attention_mask = <<>>
    /\ cpc = "idle"
    \* align_data_prepare is not running
    /\ g_k = 0
    /\ max_retries = 0
    /\ split_start_idx = 0
    /\ split_end_idx = 0
    /\ dataset = <<>>
    /\ visited = <<>>
    /\ item = 0
    /\ batch_outputs = <<>>
    /\ retries = 0
    /\ pending = 0
    /\ gen_calls = 0
    /\ processed_data = <<>>
    /\ output_dataset = <<>>
    /\ ppc = "idle"
    \* dataset_merge is not running
    /\ disk1 = NotLoaded
    /\ disk2 = NotLoaded
    /\ dataset1 = NotLoaded
    /\ dataset2 = NotLoaded
    /\ merged_dataset = NotLoaded
    /\ saved_merged = NotLoaded
    /\ mpc = "idle"

\* line 97; the else branch of lines 112-113 only prints
ValidateOutput ==
    /\ vpc = "validate"
    /\ out_valid' = validate_output(out_text)
    /\ vpc' = IF validate_output(out_text) THEN "extract" ELSE "rejected"
    /\ UNCHANGED <<out_text, out_record>>
    /\ UNCHANGED <<alignerVars, collatorVars, prepareVars, mergeVars>>

\* lines 98-111: the record is appended when both contents are non-empty
ExtractOutput ==
    /\ vpc = "extract"
    /\ out_record' = extract_logic_and_answer(out_text)
    /\ vpc' = IF extract_logic_and_answer(out_text).ok THEN "appended" ELSE "rejected"
    /\ UNCHANGED <<out_text, out_valid>>
    /\ UNCHANGED <<alignerVars, collatorVars, prepareVars, mergeVars>>

(***************************************************************************)
(* tools/dataset_merge.py, a script that runs top to bottom                *)
(***************************************************************************)
\* mutant: only the column names are compared
SameFeatures_NamesOnly(d1, d2) == DOMAIN d1.features = DOMAIN d2.features

\* the negation of the test of line 16: Features are equal as dicts
SameFeatures(d1, d2) == d1.features = d2.features

\* concatenate_datasets of two datasets with the same features
concatenate_datasets(d1, d2) == Dataset(d1.features, d1.num_rows + d2.num_rows)

\* the rows train_test_split(test_size=0.1) puts in the test split: ceil(0.1 * n)
n_test(n) == (n + 9) \div 10

n_train(n) == n - n_test(n)

InitMerge ==
    /\ disk1 \in {Dataset(f, n) : f \in FeatureSets, n \in 0..MaxRows}
    /\ disk2 \in {Dataset(f, n) : f \in FeatureSets, n \in 0..MaxRows}
    /\ dataset1 = NotLoaded
    /\ dataset2 = NotLoaded
    /\ merged_dataset = NotLoaded
    /\ saved_merged = NotLoaded
    /\ mpc = "load1"
    \* forward is not running
    /\ k = 0
    /\ batch_size = 0
    /\ seq_len = 0
    /\ i = 0
    /\ ids = <<>>
    /\ mask = <<>>
    /\ loc = NoRegion
    /\ attn_calls = <<>>
    /\ new_embeddings_list = <<>>
    /\ new_attention_mask_list = <<>>
    /\ new_embeddings = <<>>
    /\ new_attention_mask = <<>>
    /\ lm_call = NotCalled
    /\ pc = "idle"
    \* data_collator is not running
    /\ pad_token_id = PadId
    /\ n_examples = 0
    /\ batch = <<>>
    /\ input_ids = <<>>
    /\ labels = <<>>
    /\ batch_inputs = <<>>
    /\ batch_labels = <<>>
    /\ attention_mask = <<>>
    /\ cpc = "idle"
    \* align_data_prepare is not running
    /\ g_k = 0
    /\ max_retries = 0
    /\ split_start_idx = 0
    /\ split_end_idx = 0
    /\ dataset = <<>>
    /\ visited = <<>>
    /\ item = 0
    /\ batch_outputs = <<>>
    /\ retries = 0
    /\ pending = 0
    /\ gen_calls = 0
    /\ processed_data = <<>>
    /\ output_dataset = <<>>
    /\ ppc = "idle"
    \* no generated output is being validated
    /\ out_text = <<>>
    /\ out_valid = FALSE
    /\ out_record = NoRecord
    /\ vpc = "idle"

\* line 10
LoadDataset1 ==
    /\ mpc = "load1"
    /\ dataset1' = disk1
    /\ mpc' = "load2"
    /\ UNCHANGED <<disk1, disk2, dataset2, merged_dataset, saved_merged>>
    /\ UNCHANGED <<alignerVars, collatorVars, prepareVars, validateVars>>

\* line 13
LoadDataset2 ==
    /\ mpc = "load2"
    /\ dataset2' = disk2
    /\ mpc' = "check"
    /\ UNCHANGED <<disk1, disk2, dataset1, merged_dataset, saved_merged>>
    /\ UNCHANGED <<alignerVars, collatorVars, prepareVars, validateVars>>

\* lines 16-17: the script ends with ValueError when the features differ
CheckFeatures ==
    /\ mpc = "check"
    /\ mpc' = IF SameFeatures(dataset1, dataset2) THEN "concatenate" ELSE "raised"
    /\ UNCHANGED <<disk1, disk2, dataset1, dataset2, merged_dataset, saved_merged>>
    /\ UNCHANGED <<alignerVars, collatorVars, prepareVars, validateVars>>

\* line 20
Concatenate ==
    /\ mpc = "concatenate"
    /\ merged_dataset' = concatenate_datasets(dataset1, dataset2)
    /\ mpc' = "split"
    /\ UNCHANGED <<disk1, disk2, dataset1, dataset2, saved_merged>>
    /\ UNCHANGED <<alignerVars, collatorVars, prepareVars, validateVars>>

\* line 23: train_test_split raises ValueError when the train split would be empty
TrainTestSplit ==
    /\ mpc = "split"
    /\ LET n == merged_dataset.num_rows
       IN IF n_train(n) = 0
          THEN /\ mpc' = "raised"
               /\ UNCHANGED merged_dataset
          ELSE /\ merged_dataset' =
                      DatasetDict(Dataset(merged_dataset.features, n_train(n)),
                                  Dataset(merged_dataset.features, n_test(n)))
               /\ mpc' = "save"
    /\ UNCHANGED <<disk1, disk2, dataset1, dataset2, saved_merged>>
    /\ UNCHANGED <<alignerVars, collatorVars, prepareVars, validateVars>>

\* line 27
SaveToDisk ==
    /\ mpc = "save"
    /\ saved_merged' = merged_dataset
    /\ mpc' = "done"
    /\ UNCHANGED <<disk1, disk2, dataset1, dataset2, merged_dataset>>
    /\ UNCHANGED <<alignerVars, collatorVars, prepareVars, validateVars>>

(***************************************************************************)
(* Specifications: one per program                                         *)
(***************************************************************************)
NextAligner == ProcessExample \/ NextExample \/ PadBatch

SpecAligner == InitAligner /\ [][NextAligner]_vars

NextCollator == CollateExample \/ CollatePad

SpecCollator == InitCollator /\ [][NextCollator]_vars

NextPrepare == SelectRange \/ StartItem \/ Generate \/ ConsumeOutput \/ FinishItem \/ SaveDataset

\* main is one sequential process that keeps running, and llm.generate returns
SpecPrepare == InitPrepare /\ [][NextPrepare]_vars /\ WF_vars(NextPrepare)

NextTrain ==
    CollateExample \/ CollatePad \/ WrapperForward \/ ProcessExample \/ NextExample
        \/ PadBatch \/ CallBaseModel

SpecTrain == InitTrain /\ [][NextTrain]_vars

NextValidate == ValidateOutput \/ ExtractOutput

SpecValidate == InitValidate /\ [][NextValidate]_vars

NextMerge ==
    LoadDataset1 \/ LoadDataset2 \/ CheckFeatures \/ Concatenate \/ TrainTestSplit
        \/ SaveToDisk

SpecMerge == InitMerge /\ [][NextMerge]_vars

(***************************************************************************)
(* Properties of ImplicitTokensAligner.forward                             *)
(***************************************************************************)
\* the loop body has just run on row i without raising
Processed == pc = "loop" /\ ids # <<>>

orig_emb == Embedding(i, seq_len)
cur_emb == new_embeddings_list[Len(new_embeddings_list)]
cur_mask == new_attention_mask_list[Len(new_attention_mask_list)]

RangeOf(s) == {s[j] : j \in 1..Len(s)}

NonEmptyRegion == Processed /\ loc.kind = "region" /\ loc.end > loc.start + 1
EmptyRegion == Processed /\ loc.kind = "region" /\ loc.end = loc.start + 1

\* C1 as stated: when a region (start, end) with end > start + 1 is located,
\* the reassembled embeddings and mask of the row both have length
\* original_length - (end - start - 1) + k.
C1_StatedLength ==
    NonEmptyRegion =>
        /\ Len(cur_emb) = seq_len - (loc.end - loc.start - 1) + k
        /\ Len(cur_mask) = seq_len - (loc.end - loc.start - 1) + k

\* C1 (amended): when a region (start, end) with end > start + 1 is located,
\* the reassembled embeddings and mask of the row both have length
\* original_length - (end - start + 1) + k: the two tag positions are
\* removed together with the region.
C1_SplicedLength ==
    NonEmptyRegion =>
        /\ Len(new_embeddings_list) = i + 1
        /\ Len(cur_emb) = seq_len - (loc.end - loc.start + 1) + k
        /\ Len(cur_mask) = seq_len - (loc.end - loc.start + 1) + k

C1_Witness ==
    /\ NonEmptyRegion
    /\ k # loc.end - loc.start + 1
    /\ loc.end - loc.start - 1 >= 2

\* C2: forward never ends in an unchecked fault, whatever the token
\* sequences of the batch are.
C2_NeverFaults == pc # "fault"

\* C3: a row with an open tag and no close tag after the (first) open tag
\* yields no region and is passed through, however many open tags it has.
C3_OpenWithoutCloseIsNone ==
    (/\ ids # <<>>
     /\ Len(think_positions(ids)) >= 1
     /\ \A p \in RangeOf(end_think_positions(ids)) : p < think_positions(ids)[1])
    => /\ pc = "loop"
       /\ loc.kind = "none"
       /\ cur_emb = orig_emb
       /\ cur_mask = mask

C5_SplicedContent ==
    NonEmptyRegion =>
        /\ Len(cur_emb) = loc.start + k + (seq_len - loc.end - 1)
        /\ Len(cur_mask) = Len(cur_emb)
        /\ \A p \in 0..(loc.start - 1) :
              cur_emb[p + 1] = orig_emb[p + 1] /\ cur_mask[p + 1] = mask[p + 1]
        /\ \A n \in 1..k :
              /\ cur_emb[loc.start + n].src = "agg"
              /\ cur_emb[loc.start + n].q = implicit_tokens(k)[n]
              /\ cur_emb[loc.start + n].keys =
                    [j \in 1..(loc.end - loc.start - 1) |-> orig_emb[loc.start + 1 + j]]
              /\ cur_mask[loc.start + n] = 1
        /\ \A p \in (loc.end + 1)..(seq_len - 1) :
              /\ cur_emb[loc.start + k + (p - loc.end)] = orig_emb[p + 1]
              /\ cur_mask[loc.start + k + (p - loc.end)] = mask[p + 1]
        /\ orig_emb[loc.start + 1] \notin RangeOf(cur_emb)
        /\ orig_emb[loc.end + 1] \notin RangeOf(cur_emb)
        /\ Cardinality({j \in 1..Len(cur_emb) : cur_emb[j].src = "agg"}) = k

C5_Witness ==
    /\ NonEmptyRegion
    /\ loc.start > 2
    /\ loc.end < seq_len - 1
    /\ mask[seq_len] = 0
    /\ k = 2

\* C6: with an empty region (end = start + 1) the aggregator is not invoked
\* and the result is the entries before start followed by the entries after
\* end: length original_length - 2, no implicit vector.
C6_EmptyRegionRemoved ==
    EmptyRegion =>
        /\ i \notin RangeOf(attn_calls)
        /\ Len(cur_emb) = seq_len - 2
        /\ Len(cur_mask) = seq_len - 2
        /\ \A p \in 0..(loc.start - 1) :
              cur_emb[p + 1] = orig_emb[p + 1] /\ cur_mask[p + 1] = mask[p + 1]
        /\ \A p \in (loc.end + 1)..(seq_len - 1) :
              /\ cur_emb[p - 1] = orig_emb[p + 1]
              /\ cur_mask[p - 1] = mask[p + 1]
        /\ \A j \in 1..Len(cur_emb) : cur_emb[j].src = "in"

C6_Witness ==
    /\ EmptyRegion
    /\ loc.end < seq_len - 1
    /\ loc.start > 2

\* the three ways of locating no region that C7 names
NoOpenTag(row) == \A j \in 1..Len(row) : row[j] # ThinkId
NoCloseTag(row) == \A j \in 1..Len(row) : row[j] # EndThinkId
NoCloseAfterSelected(row) ==
    /\ Len(think_positions(row)) >= 3
    /\ \A j \in 1..Len(row) : row[j] = EndThinkId => j - 1 < think_positions(row)[3]

\* C7: a row with no open tag, no close tag, or no close tag after the
\* selected open tag is reassembled to itself: same embeddings, same mask.
C7_PassThrough ==
    (ids # <<>> /\ (NoOpenTag(ids) \/ NoCloseTag(ids) \/ NoCloseAfterSelected(ids))) =>
        /\ pc = "loop"
        /\ Len(new_embeddings_list) = i + 1
        /\ Len(new_attention_mask_list) = i + 1
        /\ cur_emb = orig_emb
        /\ cur_mask = mask
        /\ i \notin RangeOf(attn_calls)

C7_Witness ==
    /\ Processed
    /\ NoCloseAfterSelected(ids)
    /\ ~NoCloseTag(ids)
    /\ cur_emb = orig_emb

\* C8: the returned batch is rectangular: every row has the maximum
\* reassembled length; a row starts with its reassembled embeddings and mask
\* and continues with the pad embedding and mask value 0 only.
C8_Rectangular ==
    pc = "done" =>
        /\ Len(new_embeddings) = batch_size
        /\ Len(new_attention_mask) = batch_size
        /\ \E r \in 1..batch_size : Len(new_embeddings[r]) = Len(new_embeddings_list[r])
        /\ \A r \in 1..batch_size :
              /\ Len(new_embeddings[r]) = Len(new_embeddings[1])
              /\ Len(new_attention_mask[r]) = Len(new_embeddings[1])
              /\ Len(new_embeddings_list[r]) <= Len(new_embeddings[1])
              /\ \A j \in 1..Len(new_embeddings[r]) :
                    IF j <= Len(new_embeddings_list[r])
                    THEN /\ new_embeddings[r][j] = new_embeddings_list[r][j]
                         /\ new_attention_mask[r][j] = new_attention_mask_list[r][j]
                    ELSE /\ new_embeddings[r][j] = pad_token_emb
                         /\ new_attention_mask[r][j] = 0

C8_Witness ==
    /\ pc = "done"
    /\ batch_size >= 2
    /\ Len(new_embeddings_list[1]) < Len(new_embeddings_list[2])
    /\ attn_calls # <<>>
    /\ \E j \in 1..Len(new_attention_mask_list[2]) : new_attention_mask_list[2][j] = 0

(***************************************************************************)
(* Properties of data_collator                                             *)
(***************************************************************************)
MergedIds == {convert_tokens_to_ids(Vocab[n]) : n \in {m \in 1..Len(Vocab) : Len(Vocab[m]) = 2}}

\* C9: for an example with recorded prompt_length p whose full text has t
\* token ids, the labels built before padding have length t: p ignore
\* labels, then the t - p token ids of the full text at positions p..t-1;
\* and p <= t.
C9_LabelMasking ==
    \A r \in 1..Len(batch) :
        LET p == batch[r].prompt_length
            t == Len(input_ids[r])
        IN /\ input_ids[r] = Tokenize(batch[r].full_text)
           /\ p <= t
           /\ Len(labels[r]) = t
           /\ \A j \in 1..p : labels[r][j] = IgnoreLabel
           /\ \A j \in (p + 1)..t :
                 labels[r][j] = input_ids[r][j] /\ labels[r][j] # IgnoreLabel

\* an example whose last prompt token merged with the start of the answer
C9_Witness ==
    \E r \in 1..Len(batch) :
        /\ batch[r].prompt_length > 0
        /\ Len(labels[r]) > batch[r].prompt_length
        /\ input_ids[r][batch[r].prompt_length] \in MergedIds
        /\ labels[r][batch[r].prompt_length] = IgnoreLabel

(***************************************************************************)
(* Properties of align_data_prepare.main                                   *)
(***************************************************************************)
C10_Safe ==
    /\ gen_calls <= max_retries
    /\ gen_calls = retries
    /\ Len(batch_outputs) <= g_k
    /\ ppc = "outputs" => (Len(batch_outputs) < g_k /\ pending >= 1)
    /\ pending <= g_k - Len(batch_outputs)
    /\ \A r \in 1..Len(batch_outputs) :
          Len(batch_outputs[r].logic_trajectory) > 0 /\ Len(batch_outputs[r].answer) > 0
    /\ (ppc = "items" /\ item > 0) =>
          /\ Len(batch_outputs) = g_k \/ retries = max_retries
          /\ Len(processed_data) >= Len(batch_outputs)
          /\ SubSeq(processed_data, Len(processed_data) - Len(batch_outputs) + 1,
                    Len(processed_data)) = batch_outputs

\* C10: for every item the retry loop makes at most max_retries generation
\* calls and then ends; it never reads on once k samples are accepted, never
\* holds more than k, keeps only valid samples, and when the budget is used
\* up the item contributes the fewer than k samples collected so far.
C10_RetryLoop == []C10_Safe /\ ((ppc = "while") ~> (ppc = "items"))

C10_Witness ==
    /\ ppc = "items"
    /\ item > 0
    /\ max_retries >= 2
    /\ retries = max_retries
    /\ Len(batch_outputs) >= 1
    /\ Len(batch_outputs) < g_k
    /\ processed_data # <<>>

\* the loop has taken the items at the consecutive indices from
\* split_start_idx on, each once, and none at split_end_idx or beyond
VisitedInOrder ==
    /\ \A j \in 1..Len(visited) :
          /\ visited[j] = split_start_idx + j - 1
          /\ visited[j] < split_end_idx
    /\ ppc \in {"while", "outputs"} => Len(visited) = item + 1
    /\ ppc \in {"select", "items", "done", "fault"} => Len(visited) = item
    /\ \A r \in 1..Len(processed_data) :
          \E j \in 1..Len(visited) : processed_data[r].problem = visited[j]
    /\ \A r, q \in 1..Len(processed_data) :
          r < q => processed_data[r].problem <= processed_data[q].problem

C15_Safe ==
    /\ ppc # "idle" => VisitedInOrder
    /\ ppc = "done" =>
          /\ Len(visited) = Max(0, split_end_idx - split_start_idx)
          /\ output_dataset = processed_data
    /\ (ppc # "idle" /\ split_start_idx = 0 /\ split_end_idx = -1) =>
          /\ ppc \in {"select", "items", "done"}
          /\ visited = <<>>
          /\ gen_calls = 0
          /\ processed_data = <<>>
          /\ output_dataset = <<>>

\* the default arguments --split_start_idx 0 --split_end_idx -1
DefaultSplit == ppc # "idle" /\ split_start_idx = 0 /\ split_end_idx = -1

\* C15: main processes exactly the dataset items at the indices i with
\* split_start_idx <= i < split_end_idx, each once and in increasing index
\* order; with the default split_end_idx -1 and split_start_idx 0 the range is
\* empty, no generation call is made and the dataset that is saved has zero
\* records.
C15_SplitRange == []C15_Safe /\ (DefaultSplit ~> (ppc = "done"))

\* main has finished a run over the one item of a range that does not start
\* at index 0, and saved samples of it
C15_Witness ==
    /\ ppc = "done"
    /\ split_start_idx = 1
    /\ split_end_idx = 2
    /\ visited = <<1>>
    /\ output_dataset # <<>>
    /\ \A r \in 1..Len(output_dataset) : output_dataset[r].problem = 1

(***************************************************************************)
(* Properties of ImplicitTokensAlignment.forward                           *)
(***************************************************************************)
\* C12: the labels handed to the base model have the sequence length of the
\* aligned embeddings and of the attention mask handed to it, in every row of
\* every batch.
C12_LabelsMatchAligned ==
    (lm_call # NotCalled) =>
        \A r \in 1..Len(lm_call.labels) :
            /\ Len(lm_call.labels[r]) = Len(lm_call.inputs_embeds[r])
            /\ Len(lm_call.labels[r]) = Len(lm_call.attention_mask[r])

(***************************************************************************)
(* Properties of validate_output                                           *)
(***************************************************************************)
\* C13: validate_output returns True for a generated output only if the
\* output contains both the <think> tag and the <answer> tag; an output
\* without an <answer> tag is never validated, hence never appended.
C13_ValidNeedsAnswerTag ==
    /\ out_valid => (Contains(out_text, "THINK") /\ Contains(out_text, "ANSWER"))
    /\ (vpc = "appended") => Contains(out_text, "ANSWER")

(***************************************************************************)
(* Properties of the collator's attention mask                             *)
(***************************************************************************)
\* C14: in the batch data_collator returns, the attention mask is 1 at exactly
\* the positions that hold a token of the example's tokenized full text and 0
\* at exactly the positions batch padding added, whichever token is the pad
\* token.
C14_MaskMarksRealTokens ==
    (cpc = "done") =>
        \A r \in 1..Len(batch_inputs) :
            \A p \in 1..Len(batch_inputs[r]) :
                attention_mask[r][p] = (IF p <= Len(input_ids[r]) THEN 1 ELSE 0)

(***************************************************************************)
(* Properties of tools/dataset_merge.py                                    *)
(***************************************************************************)
\* the script has passed line 20, 23 or 27
MergeWorkDone ==
    \/ mpc \in {"split", "save", "done"}
    \/ merged_dataset # NotLoaded
    \/ saved_merged # NotLoaded

\* C11: when the features of the two datasets differ, the script raises
\* ValueError at the test of line 16 before any concatenation, split or save:
\* with differing features nothing is ever merged or written and the step after
\* the test is the raise; whatever is stored at data/merged was built from two
\* datasets with equal features.
C11_SchemaMismatchIsFatal ==
    /\ (disk1.features # disk2.features) =>
           /\ ~MergeWorkDone
           /\ mpc \in {"load1", "load2", "check", "raised"}
    /\ (saved_merged # NotLoaded) =>
           /\ SameFeatures(dataset1, dataset2)
           /\ disk1.features = disk2.features
           /\ saved_merged.train.features = disk1.features
           /\ saved_merged.test.features = disk1.features
           /\ saved_merged.train.num_rows + saved_merged.test.num_rows
                  = disk1.num_rows + disk2.num_rows

\* the ValueError of line 17 was raised on two datasets with the same column
\* names and different dtypes
C11_Witness ==
    /\ mpc = "raised"
    /\ merged_dataset = NotLoaded
    /\ DOMAIN dataset1.features = DOMAIN dataset2.features
    /\ dataset1.features # dataset2.features
    /\ dataset1.num_rows + dataset2.num_rows >= 2

====
